---- MODULE Spec2Model ----
(***************************************************************************)
(* Model of scripts/nets/macc_net_generator.py: MACCNetGenerator reads a   *)
(* network description and writes <name>_train_val.prototxt and            *)
(* <name>_deploy.prototxt.                                                 *)
(*                                                                         *)
(* Representation.                                                         *)
(*  - A config line is [tag, data]: tag is line[:4], data is               *)
(*    line[5:].split(), a sequence of tokens.  A token 'k3' is             *)
(*    [id |-> "k", val |-> 300]: val is float(text after the id) in        *)
(*    units of 1/Unit.                                                     *)
(*  - A formatted layer name is the tuple of the pieces of its format      *)
(*    string: 'conv_x%d_%d' % (1, 2) is <<"conv_x", 1, "_", 2>>.           *)
(*  - A prototxt document is the sequence of the blocks written to it,     *)
(*    each block a record of the fields the code formats into it.          *)
(*  - The file names no interpreter.  "/" on two ints (line 218) is floor  *)
(*    division under Python 2 and true division under Python 3; py3 is     *)
(*    the interpreter the run happens under.                               *)
(***************************************************************************)
EXTENDS Integers, Sequences, FiniteSets, TLC

VARIABLES
    infile,                 \* the configuration file: [name, header, lines]
    py3,                    \* TRUE: run by Python 3, FALSE: by Python 2
    bb_type,                \* self.bb_type
    pc,                     \* position in generate_prototxt_files
    name,                   \* self.name
    radius,                 \* self.radius
    circle_ratio,           \* self.circle_ratio (units of 1/Unit)
    lines,                  \* the local list lines
    idx,                    \* position of the loop "for line in lines"
    previous_layer,         \* self.previous_layer
    downsampling,           \* self.downsampling
    new_conv_id,            \* self.new_conv_id
    last_in_scale,          \* self.last_in_scale
    last_in_scale_fov,      \* self.last_in_scale_fov
    fov_base,               \* self.fov_base
    fov_previous,           \* self.fov_previous
    fov_prev_downsampling,  \* self.fov_prev_downsampling
    accs,                   \* self.accs
    acc_scales,             \* self.acc_scales
    acc_bbs_ideal,          \* self.acc_bbs_ideal (units of 1/Unit)
    train_val_file,         \* blocks written to <name>_train_val.prototxt
    deploy_file             \* blocks written to <name>_deploy.prototxt

config == <<infile, py3, bb_type, name, radius, circle_ratio, lines>>
state  == <<previous_layer, downsampling, new_conv_id, last_in_scale,
            last_in_scale_fov, fov_base, fov_previous, fov_prev_downsampling,
            accs, acc_scales, acc_bbs_ideal>>
files  == <<train_val_file, deploy_file>>
vars   == <<config, state, files, pc, idx>>

----------------------------------------------------------------------------
(* Bounds of the inputs.                                                   *)

MaxLines == 5            \* directive lines of a file of LongFiles
MaxLinesWide == 2        \* directive lines of a file of WideFiles
MaxKernel == 3           \* conv k<1..MaxKernel> in WideFiles
MaxDilation == 2         \* conv d<0..MaxDilation> in WideFiles

----------------------------------------------------------------------------
(* Values.                                                                 *)

None == -1
Unit == 100

Tok(id, n) == [id |-> id, val |-> n * Unit]

\* get_value_float: the value of the first token that contains id.
get_value_float(data, id) ==
    LET hits == {j \in DOMAIN data : data[j].id = id}
        first == CHOOSE j \in hits : \A h \in hits : j <= h
    IN  IF hits = {} THEN None ELSE data[first].val

\* get_value_int: int(val), truncation of a non-negative float.
get_value_int(data, id) ==
    LET val == get_value_float(data, id)
    IN  IF val # None THEN val \div Unit ELSE None

\* math.ceil(downsampling / 2) with the division that of two ints in
\* Python 2.
CeilHalf_int_division(n) == n \div 2

\* math.ceil(downsampling / 2.0)
CeilHalf(n) == (n + 1) \div 2

----------------------------------------------------------------------------
(* Formatting.                                                             *)

\* 'conv_x%d_%d'%(self.downsampling, self.downsampling)
conv_name_factor_twice(ds, id) == <<"conv_x", ds, "_", ds>>

\* 'conv_x%d_%d'%(self.downsampling, self.new_conv_id)
conv_name(ds, id) == <<"conv_x", ds, "_", id>>

\* 'pool_x%d'%(self.downsampling)
pool_name(ds) == <<"pool_x", ds>>

\* 'acc_x%d'%(scale)
acc_name(scale) == <<"acc_x", scale>>

\* 'BB' + ('3' if self.bb_type == 'bb3txt' else '') + suffix
bb_layer_type(suffix) ==
    <<"BB", IF bb_type = "bb3txt" THEN "3" ELSE "", suffix>>

\* A block's type is the tuple of the pieces its type string is built from.
IsType(b, t) == b.type = <<t>>

\* '%d' of a non-negative float held in units of 1/Unit.
FormatD(x) == x \div Unit

----------------------------------------------------------------------------
(* Arithmetic of _layer_conv and _layer_macc.                              *)

\* The pad value '%d' prints.  Python 2: (kernel_size-1) / 2 is floor
\* division.  Python 3: it is true division, the product with (dilation+1)
\* is a float and '%d' truncates it.
conv_pad(kernel_size, dilation) ==
    IF py3
    THEN IF dilation # None
         THEN ((kernel_size - 1) * (dilation + 1)) \div 2
         ELSE (kernel_size - 1) \div 2
    ELSE IF dilation # None
         THEN ((kernel_size - 1) \div 2) * (dilation + 1)
         ELSE (kernel_size - 1) \div 2

\* The new value of self.fov_base.
conv_fov_base(base, kernel_size, dilation) ==
    IF dilation # None
    THEN base - 1 + ((dilation + 1) * (kernel_size - 1) + 1)
    ELSE base - 1 + kernel_size

\* fov of a convolution layer.
conv_fov(base, ds, prev_ds) == base * ds + prev_ds - CeilHalf(ds)

\* bb_ideal, in units of 1/Unit; ratio is in units of 1/Unit.
macc_bb_ideal(r, scale, ratio) == ((2 * r + 1) * scale * 1 * Unit * Unit) \div ratio

----------------------------------------------------------------------------
(* MACCNetGenerator.  A generator g is the record of the fields of self    *)
(* that reset() assigns.  A method that writes returns what it wrote: its  *)
(* result is [self, out, exited], the generator after the call, the blocks *)
(* to write, and whether the call ended in exit().                         *)

returns(g, out) == [self |-> g, out |-> out, exited |-> FALSE]

\* exit(): the process ends; nothing more is written.
exits(g) == [self |-> g, out |-> <<>>, exited |-> TRUE]

\* The generator after reset().
reset ==
    [previous_layer |-> <<"data">>,
     downsampling |-> 1,
     new_conv_id |-> 1,
     last_in_scale |-> [s \in {} |-> None],
     last_in_scale_fov |-> [s \in {} |-> None],
     fov_base |-> 1,
     fov_previous |-> 1,
     fov_prev_downsampling |-> 1,
     accs |-> <<>>,
     acc_scales |-> <<>>,
     acc_bbs_ideal |-> <<>>]

\* d.setdefault(key, value): the first value of a key stays.
dict_setdefault(d, key, value) ==
    [s \in DOMAIN d \cup {key} |-> IF s \in DOMAIN d THEN d[s] ELSE value]

\* d[key] = value on a dict.
dict_set(d, key, value) ==
    [s \in DOMAIN d \cup {key} |-> IF s = key THEN value ELSE d[s]]

_layer_relu(g) ==
    [type |-> <<"ReLU">>, name |-> <<"relu_">> \o g.previous_layer,
     bottom |-> g.previous_layer, top |-> g.previous_layer]

_downsampling(g) == [type |-> <<"#">>, text |-> <<"x", g.downsampling>>]

banner(text) == [type |-> <<"#">>, text |-> <<text>>]

name_line(n) == [type |-> <<"name">>, name |-> n]

_layer_input ==
    [type |-> <<"Input">>, name |-> <<"data">>, top |-> <<"data">>,
     shape |-> <<1, 3, 128, 256>>]

_layer_data(phase) ==
    [type |-> bb_layer_type("TXTData"), name |-> <<"data">>,
     top |-> <<<<"data">>, <<"label">>>>, phase |-> phase,
     batch_size |-> 16, width |-> 256, height |-> 128,
     reference_size_min |-> 60, reference_size_max |-> 120]

_layer_conv(g, specs, dep) ==
    LET nm == conv_name(g.downsampling, g.new_conv_id)
        g1 == [g EXCEPT !.new_conv_id = @ + 1]
        data == specs.data
        num_output == get_value_int(data, "o")
        kernel_size == get_value_int(data, "k")
        dilation == get_value_int(data, "d")
        base == conv_fov_base(g.fov_base, kernel_size, dilation)
        fov == conv_fov(base, g.downsampling, g.fov_prev_downsampling)
        block ==
            [type |-> <<"Convolution">>, comment |-> "FOV", fov |-> fov,
             fov_split |-> <<base * g.downsampling,
                             g.fov_prev_downsampling - CeilHalf(g.downsampling)>>,
             name |-> nm, bottom |-> g.previous_layer, top |-> nm,
             param |-> ~dep,
             num_output |-> num_output, kernel_size |-> kernel_size,
             pad |-> conv_pad(kernel_size, dilation),
             dilation |-> IF dilation # None THEN dilation + 1 ELSE None,
             filler |-> ~dep]
    IN  IF num_output = None \/ kernel_size = None
        THEN exits(g1)
        ELSE returns([g1 EXCEPT
                        !.fov_base = base,
                        !.fov_previous = fov,
                        !.previous_layer = nm,
                        !.last_in_scale = dict_set(@, g.downsampling, nm),
                        !.last_in_scale_fov = dict_set(@, g.downsampling, fov)],
                     <<block>>)

\* _layer_pool without "self.new_conv_id = 1".
_layer_pool_keeps_ids(g) ==
    LET g1 == [g EXCEPT !.downsampling = @ * 2,
                        !.fov_base = 1,
                        !.fov_prev_downsampling = g.fov_previous]
        nm == pool_name(g1.downsampling)
        block ==
            [type |-> <<"Pooling">>, name |-> nm, bottom |-> g.previous_layer,
             top |-> nm, pool |-> "MAX", kernel_size |-> 2, stride |-> 2]
    IN  returns([g1 EXCEPT !.previous_layer = nm], <<_downsampling(g1), block>>)

\* _layer_pool that also records the layer it pools as the last layer of
\* the new scale.
_layer_pool_records_scale(g) ==
    LET g1 == [g EXCEPT !.downsampling = @ * 2,
                        !.new_conv_id = 1,
                        !.fov_base = 1,
                        !.fov_prev_downsampling = g.fov_previous,
                        !.last_in_scale = dict_set(@, g.downsampling * 2, g.previous_layer),
                        !.last_in_scale_fov = dict_set(@, g.downsampling * 2, g.fov_previous)]
        nm == pool_name(g1.downsampling)
        block ==
            [type |-> <<"Pooling">>, name |-> nm, bottom |-> g.previous_layer,
             top |-> nm, pool |-> "MAX", kernel_size |-> 2, stride |-> 2]
    IN  returns([g1 EXCEPT !.previous_layer = nm], <<_downsampling(g1), block>>)

_layer_pool(g) ==
    LET g1 == [g EXCEPT !.downsampling = @ * 2,
                        !.new_conv_id = 1,
                        !.fov_base = 1,
                        !.fov_prev_downsampling = g.fov_previous]
        nm == pool_name(g1.downsampling)
        block ==
            [type |-> <<"Pooling">>, name |-> nm, bottom |-> g.previous_layer,
             top |-> nm, pool |-> "MAX", kernel_size |-> 2, stride |-> 2]
    IN  returns([g1 EXCEPT !.previous_layer = nm], <<_downsampling(g1), block>>)

\* _layer_macc without the exit() of line 323: the error is reported and
\* the run goes on with the next line.
_layer_macc_goes_on(g, specs, dep) ==
    LET scale == get_value_int(specs.data, "x")
        nm == acc_name(scale)
        bb_ideal == macc_bb_ideal(radius, scale, circle_ratio)
        block ==
            [type |-> <<"Convolution">>, comment |-> "ACCUMULATOR",
             scale |-> scale, fov |-> g.last_in_scale_fov[scale],
             bb_ideal |-> FormatD(bb_ideal),
             name |-> nm, bottom |-> g.last_in_scale[scale], top |-> nm,
             param |-> ~dep,
             num_output |-> IF bb_type = "bb3txt" THEN 8 ELSE 5,
             kernel_size |-> 1,
             filler |-> ~dep]
    IN  IF scale = None \/ scale \notin DOMAIN g.last_in_scale
        THEN returns(g, <<>>)
        ELSE returns([g EXCEPT !.accs = Append(@, nm),
                               !.acc_scales = Append(@, scale),
                               !.acc_bbs_ideal = Append(@, bb_ideal)],
                     <<block>>)

_layer_macc(g, specs, dep) ==
    LET data == specs.data
        scale == get_value_int(data, "x")
        nm == acc_name(scale)
        bb_ideal == macc_bb_ideal(radius, scale, circle_ratio)
        block ==
            [type |-> <<"Convolution">>, comment |-> "ACCUMULATOR",
             scale |-> scale, fov |-> g.last_in_scale_fov[scale],
             bb_ideal |-> FormatD(bb_ideal),
             name |-> nm, bottom |-> g.last_in_scale[scale], top |-> nm,
             param |-> ~dep,
             num_output |-> IF bb_type = "bb3txt" THEN 8 ELSE 5,
             kernel_size |-> 1,
             filler |-> ~dep]
    IN  IF scale = None \/ scale \notin DOMAIN g.last_in_scale
        THEN exits(g)
        ELSE returns([g EXCEPT !.accs = Append(@, nm),
                               !.acc_scales = Append(@, scale),
                               !.acc_bbs_ideal = Append(@, bb_ideal)],
                     <<block>>)

\* _add_layer that writes the ReLU layer in the train_val file only.
_add_layer_relu_in_training(g, ln, dep) ==
    CASE ln.tag = "conv" ->
           LET r == _layer_conv(g, ln, dep)
           IN  IF r.exited \/ dep THEN r
               ELSE returns(r.self, r.out \o <<_layer_relu(r.self)>>)
      [] ln.tag = "pool" -> _layer_pool(g)
      [] ln.tag = "macc" -> _layer_macc(g, ln, dep)
      [] OTHER -> returns(g, <<>>)

\* _add_layer that ends the run on a line it does not know.
_add_layer_rejects_unknown(g, ln, dep) ==
    CASE ln.tag = "conv" ->
           LET r == _layer_conv(g, ln, dep)
           IN  IF r.exited THEN r
               ELSE returns(r.self, r.out \o <<_layer_relu(r.self)>>)
      [] ln.tag = "pool" -> _layer_pool(g)
      [] ln.tag = "macc" -> _layer_macc(g, ln, dep)
      [] OTHER -> exits(g)

\* _add_layer(line, outfile, deploy): the dispatch on line[:4].
_add_layer(g, ln, dep) ==
    CASE ln.tag = "conv" ->
           LET r == _layer_conv(g, ln, dep)
           IN  IF r.exited THEN r
               ELSE returns(r.self, r.out \o <<_layer_relu(r.self)>>)
      [] ln.tag = "pool" -> _layer_pool(g)
      [] ln.tag = "macc" -> _layer_macc(g, ln, dep)
      [] OTHER -> returns(g, <<>>)

\* The loop "for line in lines: self._add_layer(line, outfile, deploy)" on a
\* generator g: [self, out, exited] when it is over.
RECURSIVE run_lines(_, _, _)
run_lines(g, ls, dep) ==
    IF ls = <<>>
    THEN returns(g, <<>>)
    ELSE LET r == _add_layer(g, Head(ls), dep)
             rest == run_lines(r.self, Tail(ls), dep)
         IN  IF r.exited THEN r
             ELSE [self |-> rest.self, out |-> r.out \o rest.out,
                   exited |-> rest.exited]

\* loss_block with the current downsampling factor as its downsampling.
loss_block_current_factor(g, i) ==
    [type |-> bb_layer_type("TXTLoss"),
     scale |-> g.acc_scales[i], fov |-> g.last_in_scale_fov[g.acc_scales[i]],
     bb_ideal |-> FormatD(g.acc_bbs_ideal[i]),
     name |-> <<"loss_x", g.acc_scales[i]>>,
     bottom |-> <<<<"label">>, g.accs[i]>>,
     top |-> <<"loss_x", g.acc_scales[i]>>,
     radius |-> radius, downsampling |-> g.downsampling,
     negative_ratio |-> 30, circle_ratio |-> circle_ratio,
     bounds_overlap |-> 33]

loss_block(g, i) ==
    [type |-> bb_layer_type("TXTLoss"),
     scale |-> g.acc_scales[i], fov |-> g.last_in_scale_fov[g.acc_scales[i]],
     bb_ideal |-> FormatD(g.acc_bbs_ideal[i]),
     name |-> <<"loss_x", g.acc_scales[i]>>,
     bottom |-> <<<<"label">>, g.accs[i]>>,
     top |-> <<"loss_x", g.acc_scales[i]>>,
     radius |-> radius, downsampling |-> g.acc_scales[i],
     negative_ratio |-> 30, circle_ratio |-> circle_ratio,
     bounds_overlap |-> 33]

_layer_loss(g) ==
    <<banner("LOSS")>> \o [i \in 1..Len(g.accs) |-> loss_block(g, i)]

bb_block(g, i) ==
    [type |-> bb_layer_type("TXTBB"),
     scale |-> g.acc_scales[i], fov |-> g.last_in_scale_fov[g.acc_scales[i]],
     bb_ideal |-> FormatD(g.acc_bbs_ideal[i]),
     name |-> <<"bb_x", g.acc_scales[i]>>,
     bottom |-> g.accs[i], top |-> g.accs[i],
     ideal_size |-> g.acc_bbs_ideal[i], downsampling |-> g.acc_scales[i]]

_layer_bb(g) ==
    <<banner("BB")>> \o [i \in 1..Len(g.accs) |-> bb_block(g, i)]

----------------------------------------------------------------------------
(* Inputs: the configuration files.                                        *)

SeqsUpTo(S, n) == UNION {[1..m -> S] : m \in 0..n}

ConvLine(data) == [tag |-> "conv", data |-> data]
PoolLine == [tag |-> "pool", data |-> <<>>]
MaccLine(data) == [tag |-> "macc", data |-> data]
\* 'relu': a line whose first four characters are no directive tag.
OtherLine == [tag |-> "relu", data |-> <<>>]

\* r1 c0.5
DemoHeader == <<Tok("r", 1), [id |-> "c", val |-> Unit \div 2]>>

\* Long files over few directives: conv k3 o8, conv k3 d2 o64, pool,
\* macc x1, macc x2 and an unrecognised line.
Directives ==
    {ConvLine(<<Tok("k", 3), Tok("o", 8)>>),
     ConvLine(<<Tok("k", 3), Tok("d", 2), Tok("o", 64)>>),
     PoolLine,
     MaccLine(<<Tok("x", 1)>>),
     MaccLine(<<Tok("x", 2)>>),
     OtherLine}

LongFiles ==
    [name : {"demo"}, header : {DemoHeader},
     lines : SeqsUpTo(Directives, MaxLines)]

\* Short files over many directives: every kernel size and dilation, lines
\* that lack a required token, and a header that lacks the radius.
WideDirectives ==
    {ConvLine(<<Tok("k", k), Tok("o", 64)>>) : k \in 1..MaxKernel}
    \cup {ConvLine(<<Tok("k", k), Tok("d", d), Tok("o", 64)>>) :
            k \in 1..MaxKernel, d \in 0..MaxDilation}
    \cup {ConvLine(<<Tok("k", 3)>>), MaccLine(<<>>), MaccLine(<<Tok("x", 1)>>),
          PoolLine, OtherLine}

WideFiles ==
    [name : {"demo"}, header : {DemoHeader, <<DemoHeader[2]>>},
     lines : SeqsUpTo(WideDirectives, MaxLinesWide)]

----------------------------------------------------------------------------
(* generate_prototxt_files.                                                *)

self ==
    [previous_layer |-> previous_layer,
     downsampling |-> downsampling,
     new_conv_id |-> new_conv_id,
     last_in_scale |-> last_in_scale,
     last_in_scale_fov |-> last_in_scale_fov,
     fov_base |-> fov_base,
     fov_previous |-> fov_previous,
     fov_prev_downsampling |-> fov_prev_downsampling,
     accs |-> accs,
     acc_scales |-> acc_scales,
     acc_bbs_ideal |-> acc_bbs_ideal]

\* The fields of self become those of g.
become(g) ==
    /\ previous_layer' = g.previous_layer
    /\ downsampling' = g.downsampling
    /\ new_conv_id' = g.new_conv_id
    /\ last_in_scale' = g.last_in_scale
    /\ last_in_scale_fov' = g.last_in_scale_fov
    /\ fov_base' = g.fov_base
    /\ fov_previous' = g.fov_previous
    /\ fov_prev_downsampling' = g.fov_prev_downsampling
    /\ accs' = g.accs
    /\ acc_scales' = g.acc_scales
    /\ acc_bbs_ideal' = g.acc_bbs_ideal

\* __init__ (lines 79-82): the fields of self are those of g.
constructed(g) ==
    /\ previous_layer = g.previous_layer
    /\ downsampling = g.downsampling
    /\ new_conv_id = g.new_conv_id
    /\ last_in_scale = g.last_in_scale
    /\ last_in_scale_fov = g.last_in_scale_fov
    /\ fov_base = g.fov_base
    /\ fov_previous = g.fov_previous
    /\ fov_prev_downsampling = g.fov_prev_downsampling
    /\ accs = g.accs
    /\ acc_scales = g.acc_scales
    /\ acc_bbs_ideal = g.acc_bbs_ideal

\* The generator is constructed; nothing is read or written yet.
InitOn(F, E) ==
    /\ infile \in F
    /\ \E e \in E : py3 = e[1] /\ bb_type = e[2]
    /\ pc = "start"
    /\ name = None
    /\ radius = None
    /\ circle_ratio = None
    /\ lines = <<>>
    /\ idx = 0
    /\ constructed(reset)
    /\ train_val_file = <<>>
    /\ deploy_file = <<>>

\* A run is on a long file with bb_type 'bb3txt', or on a short file with
\* bb_type 'bbtxt' under either interpreter (the kernels of the long files
\* are odd, and the interpreters differ on even kernels only).
Init ==
    \/ InitOn(LongFiles, {<<FALSE, "bb3txt">>})
    \/ InitOn(WideFiles, {<<FALSE, "bbtxt">>, <<TRUE, "bbtxt">>})

\* outfile.write(blocks) on the file of the running pass.
write(blocks) ==
    IF pc = "deploy"
    THEN deploy_file' = deploy_file \o blocks /\ UNCHANGED train_val_file
    ELSE train_val_file' = train_val_file \o blocks /\ UNCHANGED deploy_file

\* Lines 129-134: what is written before the layers of the train_val file.
train_val_head ==
    <<name_line(name), _layer_data("TRAIN"), _layer_data("TEST"),
      banner("NETWORK STRUCTURE"), _downsampling(reset)>>

\* Lines 147-151: what is written before the layers of the deploy file.
deploy_head ==
    <<name_line(name), _layer_input,
      banner("NETWORK STRUCTURE"), _downsampling(reset)>>

\* Lines 105-121: the configuration file is parsed.
ParseConfig ==
    /\ pc = "start"
    /\ LET data == infile.header
           r == get_value_int(data, "r")
           c == get_value_float(data, "c")
       IN  IF r = None \/ c = None
           THEN pc' = "exited" /\ UNCHANGED <<config, state, files, idx>>
           ELSE /\ name' = infile.name
                /\ radius' = r
                /\ circle_ratio' = c
                /\ lines' = infile.lines
                /\ pc' = "open_train_val"
                /\ UNCHANGED <<infile, py3, bb_type, state, files, idx>>

\* Lines 126-134: the train_val file is opened and its head written.
OpenTrainVal ==
    /\ pc = "open_train_val"
    /\ become(reset)
    /\ train_val_file' = train_val_head
    /\ idx' = 1
    /\ pc' = "train_val"
    /\ UNCHANGED <<config, deploy_file>>

\* Lines 144-151: the deploy file is opened and its head written.
OpenDeploy ==
    /\ pc = "open_deploy"
    /\ become(reset)
    /\ deploy_file' = deploy_head
    /\ idx' = 1
    /\ pc' = "deploy"
    /\ UNCHANGED <<config, train_val_file>>

InPass == pc \in {"train_val", "deploy"} /\ idx \in 1..Len(lines)

deploy == pc = "deploy"

line == lines[idx]

DirectiveTags == {"conv", "pool", "macc"}

OtherTags == {lines[j].tag : j \in DOMAIN lines} \ DirectiveTags

\* Lines 136-137 and 153-154: one turn of "for line in lines", on a line
\* whose tag is in tags.
AddLayer(tags) ==
    /\ InPass
    /\ line.tag \in tags
    /\ LET r == _add_layer(self, line, deploy)
       IN  /\ become(r.self)
           /\ write(r.out)
           /\ IF r.exited
              THEN pc' = "exited" /\ UNCHANGED idx
              ELSE idx' = idx + 1 /\ UNCHANGED pc
    /\ UNCHANGED config

AddConv == AddLayer({"conv"})

AddPool == AddLayer({"pool"})

AddMacc == AddLayer({"macc"})

AddNone == AddLayer(OtherTags)

\* Line 139: the loss layers end the train_val file.
CloseTrainVal ==
    /\ pc = "train_val"
    /\ idx > Len(lines)
    /\ write(_layer_loss(self))
    /\ pc' = "open_deploy"
    /\ UNCHANGED <<config, state, idx>>

\* Line 156: the decode layers end the deploy file.
CloseDeploy ==
    /\ pc = "deploy"
    /\ idx > Len(lines)
    /\ write(_layer_bb(self))
    /\ pc' = "done"
    /\ UNCHANGED <<config, state, idx>>

Next ==
    \/ ParseConfig
    \/ OpenTrainVal
    \/ AddConv
    \/ AddPool
    \/ AddMacc
    \/ AddNone
    \/ CloseTrainVal
    \/ OpenDeploy
    \/ CloseDeploy

Spec == Init /\ [][Next]_vars

----------------------------------------------------------------------------
(* What the claims speak of.                                               *)

RECURSIVE Pow2(_)
Pow2(p) == IF p = 0 THEN 1 ELSE 2 * Pow2(p - 1)

Range(q) == {q[j] : j \in DOMAIN q}

IsConv(b) == IsType(b, "Convolution") /\ b.comment = "FOV"
IsAcc(b) == IsType(b, "Convolution") /\ b.comment = "ACCUMULATOR"
IsPool(b) == IsType(b, "Pooling")
IsRelu(b) == IsType(b, "ReLU")
IsLoss(b) == Len(b.type) = 3 /\ b.type[3] = "TXTLoss"
IsBB(b) == Len(b.type) = 3 /\ b.type[3] = "TXTBB"
IsShared(b) == IsType(b, "Convolution") \/ IsPool(b) \/ IsRelu(b)

\* The cumulative downsampling factor when line j of ls is processed: one
\* doubling per pool line before it.
FactorAt(ls, j) == Pow2(Cardinality({i \in 1..(j - 1) : ls[i].tag = "pool"}))

\* A conv line was processed before line j while the factor was s.
ConvSeenAt(ls, j, s) ==
    \E i \in 1..(j - 1) : ls[i].tag = "conv" /\ FactorAt(ls, i) = s

\* The scale a macc line names.
ScaleOf(ln) == get_value_int(ln.data, "x")

----------------------------------------------------------------------------
(* C1: when a pass processes `macc x<s>` and no conv line was processed    *)
(* earlier in the pass while the downsampling factor was s, the run ends   *)
(* at that line: nothing is written, nothing is appended to accs,          *)
(* acc_scales, acc_bbs_ideal, and once the run has ended no step of the    *)
(* generator is possible.                                                  *)
C1_MaccWithoutConvAborts ==
    /\ [][(/\ InPass
           /\ line.tag = "macc"
           /\ ScaleOf(line) # None
           /\ ~ConvSeenAt(lines, idx, ScaleOf(line)))
          => (/\ pc' = "exited"
              /\ idx' = idx
              /\ files' = files
              /\ <<accs, acc_scales, acc_bbs_ideal>>' = <<accs, acc_scales, acc_bbs_ideal>>)]_vars
    /\ [](pc = "exited" => ~ENABLED Next)

\* The run has ended at `macc x2`, after a conv and a pool were written.
C1_Witness ==
    /\ pc = "exited"
    /\ idx \in DOMAIN lines
    /\ lines[idx].tag = "macc"
    /\ ScaleOf(lines[idx]) = 2
    /\ downsampling = 2
    /\ \E b \in Range(train_val_file) : IsConv(b)
    /\ ~ConvSeenAt(lines, idx, 2)

----------------------------------------------------------------------------
(* C2: when generation does not abort, the train_val document and the      *)
(* deploy document hold the same sequence of conv, relu, pool and          *)
(* accumulator layers: the same names with the same bottoms, in order;     *)
(* and the generator the deploy pass ends in is the one the loop of the    *)
(* train_val pass ends in.                                                 *)
NameOf(b) == <<b.name, b.bottom>>

SharedLayers(d) ==
    LET shared == SelectSeq(d, IsShared)
    IN  [j \in DOMAIN shared |-> NameOf(shared[j])]

C2_SameSharedLayers ==
    pc = "done"
    => /\ SharedLayers(train_val_file) = SharedLayers(deploy_file)
       /\ self = run_lines(reset, lines, FALSE).self

\* Both documents are written, with conv, relu, pool and accumulator layers.
C2_Witness ==
    /\ pc = "done"
    /\ \E b \in Range(deploy_file) : IsConv(b) /\ b.name[2] = 2
    /\ \E b \in Range(deploy_file) : IsPool(b)
    /\ \E b \in Range(deploy_file) : IsAcc(b)
    /\ \E b \in Range(deploy_file) : IsRelu(b)

----------------------------------------------------------------------------
(* C3 as stated: on name "demo", r1 c0.5 and the lines `conv k3 o8`,       *)
(* `pool`, `macc x2` the run completes with one pooling block, one         *)
(* convolution block at downsampling 1, one accumulator block at           *)
(* downsampling 2 with ideal size 12, one loss block (train_val) and one   *)
(* decode block (deploy) whose bottom is that accumulator.                 *)
DemoLines ==
    <<ConvLine(<<Tok("k", 3), Tok("o", 8)>>), PoolLine, MaccLine(<<Tok("x", 2)>>)>>

IsDemo == infile = [name |-> "demo", header |-> DemoHeader, lines |-> DemoLines]

Count(d, Is(_)) == Len(SelectSeq(d, Is))

The(d, Is(_)) == SelectSeq(d, Is)[1]

DemoLayers(d) ==
    /\ Count(d, IsPool) = 1
    /\ Count(d, IsConv) = 1
    /\ The(d, IsConv).name = conv_name(1, 1)
    /\ Count(d, IsAcc) = 1
    /\ The(d, IsAcc).scale = 2
    /\ The(d, IsAcc).bb_ideal = 12

C3_DemoCompletes ==
    (IsDemo /\ pc \in {"done", "exited"})
    => /\ pc = "done"
       /\ DemoLayers(train_val_file)
       /\ DemoLayers(deploy_file)
       /\ Count(train_val_file, IsLoss) = 1
       /\ The(train_val_file, IsLoss).bottom[2] = The(train_val_file, IsAcc).name
       /\ Count(deploy_file, IsBB) = 1
       /\ The(deploy_file, IsBB).bottom = The(deploy_file, IsAcc).name
       /\ The(deploy_file, IsBB).ideal_size = 12 * Unit

(* C3 as amended: on that configuration the run ends at `macc x2`, the     *)
(* third line, since the only conv was emitted at downsampling 1: the      *)
(* train_val document then holds one convolution block, conv_x1_1, one     *)
(* pooling block, pool_x2, no accumulator and no loss block, and the       *)
(* deploy document is never written.                                       *)
C3_DemoAborts ==
    IsDemo
    => /\ pc \in {"start", "open_train_val", "train_val", "exited"}
       /\ deploy_file = <<>>
       /\ pc = "train_val" => idx <= 3
       /\ pc = "exited"
          => /\ idx = 3
             /\ Count(train_val_file, IsConv) = 1
             /\ The(train_val_file, IsConv).name = conv_name(1, 1)
             /\ Count(train_val_file, IsPool) = 1
             /\ The(train_val_file, IsPool).name = pool_name(2)
             /\ Count(train_val_file, IsAcc) = 0
             /\ Count(train_val_file, IsLoss) = 0

\* The demo run has ended at its third line.
C3_Witness == IsDemo /\ pc = "exited" /\ idx = 3 /\ downsampling = 2

----------------------------------------------------------------------------
(* C4: a line whose first four characters are none of conv, pool, macc     *)
(* writes nothing, does not end the run and leaves every field of the      *)
(* generator unchanged; and when the loop of a pass is over, the generator *)
(* and the document are those that the lines without such lines produce.   *)
IsDirective(ln) == ln.tag \in DirectiveTags

LoopOver == pc \in {"train_val", "deploy"} /\ idx > Len(lines)

C4_OtherLinesIgnored ==
    /\ [][(InPass /\ ~IsDirective(line))
          => (state' = state /\ files' = files /\ pc' = pc)]_vars
    /\ [](LoopOver
          => LET r == run_lines(reset, SelectSeq(lines, IsDirective), deploy)
             IN  /\ ~r.exited
                 /\ self = r.self
                 /\ deploy => deploy_file = deploy_head \o r.out
                 /\ ~deploy => train_val_file = train_val_head \o r.out)

\* The loop of the deploy pass is over, on lines of which one is no
\* directive and comes after a pool, a conv and an accumulator.
C4_Witness ==
    /\ LoopOver
    /\ deploy
    /\ \E j \in DOMAIN lines : j > 3 /\ ~IsDirective(lines[j])
    /\ downsampling > 1
    /\ accs # <<>>

----------------------------------------------------------------------------
(* C5: after a pass that does not abort, the train_val document ends with  *)
(* one loss block, and the deploy document with one decode block, per macc *)
(* line, in the order of the macc lines: the i-th has as bottom the name   *)
(* of the i-th accumulator and as downsampling the scale of the i-th macc  *)
(* line.                                                                   *)
IsMaccLine(ln) == ln.tag = "macc"

MaccScales(ls) ==
    LET m == SelectSeq(ls, IsMaccLine)
    IN  [j \in DOMAIN m |-> ScaleOf(m[j])]

LossBottom(b) == b.bottom[2]

BBBottom(b) == b.bottom

EndsWithHeads(d, IsHead(_), BottomOf(_)) ==
    LET ms == MaccScales(lines)
        n == Len(ms)
        acc_blocks == SelectSeq(d, IsAcc)
    IN  /\ Count(d, IsHead) = n
        /\ Len(acc_blocks) = n
        /\ Len(d) >= n
        /\ \A i \in 1..n :
              LET b == d[Len(d) - n + i]
              IN  /\ IsHead(b)
                  /\ BottomOf(b) = acc_blocks[i].name
                  /\ b.downsampling = ms[i]

C5_HeadPerMacc ==
    /\ pc = "open_deploy"
       => Len(accs) = Len(MaccScales(lines))
          /\ \A i \in DOMAIN accs :
                accs[i] = SelectSeq(train_val_file, IsAcc)[i].name
    /\ pc \in {"open_deploy", "deploy", "done"}
       => EndsWithHeads(train_val_file, IsLoss, LossBottom)
    /\ pc = "done" => EndsWithHeads(deploy_file, IsBB, BBBottom)

\* Both documents are written from lines with `macc x2` before `macc x1`.
C5_Witness ==
    /\ pc = "done"
    /\ MaccScales(lines) = <<2, 1>>

----------------------------------------------------------------------------
(* C6: a conv with kernel k and optional dilation d sets fov_base to its   *)
(* previous value minus 1 plus the span (k without dilation, else          *)
(* (d+1)*(k-1)+1), and the field of view recorded for the layer is         *)
(* fov_base * downsampling + fov_prev_downsampling - ceil(downsampling/2); *)
(* a lone `conv k3 o64` has field of view 3, and `conv k3 o64` followed by *)
(* `conv k3 d2 o64` has field of view 9.                                   *)
\* The document of the running pass.
doc == IF pc \in {"deploy", "done"} THEN deploy_file ELSE train_val_file

KernelOf(ln) == get_value_int(ln.data, "k")
DilationOf(ln) == get_value_int(ln.data, "d")
OutputOf(ln) == get_value_int(ln.data, "o")

Span(k, d) == IF d = None THEN k ELSE (d + 1) * (k - 1) + 1

\* The least integer that is at least n / 2.
Ceil2(n) == CHOOSE c \in 0..n : 2 * c >= n /\ 2 * (c - 1) < n

\* A conv line is processed and does not end the run.
ConvStep ==
    /\ InPass
    /\ line.tag = "conv"
    /\ KernelOf(line) # None
    /\ OutputOf(line) # None

PlainConv == ConvLine(<<Tok("k", 3), Tok("o", 64)>>)
DilatedConv == ConvLine(<<Tok("k", 3), Tok("d", 2), Tok("o", 64)>>)

C6_FieldOfView ==
    /\ [][ConvStep
          => LET fov == fov_base' * downsampling + fov_prev_downsampling
                        - Ceil2(downsampling)
             IN  /\ fov_base' = fov_base - 1 + Span(KernelOf(line), DilationOf(line))
                 /\ doc'[Len(doc) + 1].fov = fov
                 /\ last_in_scale_fov'[downsampling] = fov
                 /\ fov_previous' = fov]_vars
    /\ []((pc = "done" /\ lines = <<PlainConv>>)
          => The(train_val_file, IsConv).fov = 3 /\ The(deploy_file, IsConv).fov = 3)
    /\ []((pc = "done" /\ lines = <<PlainConv, DilatedConv>>)
          => /\ SelectSeq(train_val_file, IsConv)[2].fov = 9
             /\ SelectSeq(deploy_file, IsConv)[2].fov = 9)

\* A dilated conv was processed after a pool that followed a conv.
C6_Witness ==
    /\ pc = "train_val"
    /\ idx > 3
    /\ lines[idx - 1].tag = "conv"
    /\ DilationOf(lines[idx - 1]) # None
    /\ downsampling > 1
    /\ fov_prev_downsampling > 1
    /\ fov_previous > fov_prev_downsampling

----------------------------------------------------------------------------
(* C7 as stated: each pool line, wherever it stands, doubles the           *)
(* downsampling factor, sets the conv counter and fov_base to 1, and sets  *)
(* fov_prev_downsampling to the field of view of the layer written         *)
(* immediately before the pool; the first conv after a pool is named       *)
(* conv_x<doubled factor>_1.                                               *)
PoolStep == InPass /\ line.tag = "pool"

IsLayer(b) == IsShared(b)

\* The field of view of the last layer of a document d: that of a conv
\* block or of the conv block its relu block follows, that of the layer an
\* accumulator block reads, as its block states it, the field of view a
\* pool block carried over, and 1 when d holds no layer but the data layer.
FovOfLastLayer(d) ==
    LET layers == SelectSeq(d, IsLayer)
        n == Len(layers)
        b == layers[n]
    IN  IF n = 0 THEN 1
        ELSE IF IsRelu(b) THEN layers[n - 1].fov
        ELSE IF IsPool(b) THEN fov_prev_downsampling
        ELSE b.fov

\* The field of view of the last conv block of d, 1 when d holds none.
FovOfLastConv(d) ==
    LET convs == SelectSeq(d, IsConv)
    IN  IF convs = <<>> THEN 1 ELSE convs[Len(convs)].fov

PoolResets ==
    /\ downsampling' = 2 * downsampling
    /\ new_conv_id' = 1
    /\ fov_base' = 1

\* The conv line processed is the first since a pool line.
FirstConvAfterPool ==
    /\ ConvStep
    /\ \E j \in 1..(idx - 1) :
          /\ lines[j].tag = "pool"
          /\ \A h \in (j + 1)..(idx - 1) : lines[h].tag \notin {"conv", "pool"}

NumberedOne ==
    /\ downsampling = FactorAt(lines, idx)
    /\ downsampling > 1
    /\ doc'[Len(doc) + 1].name = <<"conv_x", downsampling, "_", 1>>

C7_PoolCarriesPrecedingLayer ==
    /\ [][PoolStep
          => PoolResets /\ fov_prev_downsampling' = FovOfLastLayer(doc)]_vars
    /\ [][FirstConvAfterPool => NumberedOne]_vars

(* C7 as amended: each pool line, wherever it stands, doubles the          *)
(* downsampling factor, sets the conv counter and fov_base to 1, and sets  *)
(* fov_prev_downsampling to fov_previous, the field of view of the conv    *)
(* layer emitted last in the pass (1 when none was emitted), also when an  *)
(* accumulator block was written between that conv and the pool; the first *)
(* conv after a pool is named conv_x<doubled factor>_1.                    *)
C7_PoolCarriesLastConv ==
    /\ [][PoolStep
          => PoolResets /\ fov_prev_downsampling' = FovOfLastConv(doc)]_vars
    /\ [][FirstConvAfterPool => NumberedOne]_vars

\* A pool was processed directly after an accumulator of an earlier scale,
\* whose layer has another field of view than the conv emitted last.
C7_Witness ==
    /\ pc = "train_val"
    /\ idx > 2
    /\ lines[idx - 1].tag = "pool"
    /\ lines[idx - 2].tag = "macc"
    /\ last_in_scale_fov[ScaleOf(lines[idx - 2])] # fov_previous
    /\ fov_prev_downsampling = fov_previous

----------------------------------------------------------------------------
(* C8: during a pass, last_in_scale[s] is the name of the conv layer       *)
(* emitted last while the downsampling factor was s, and                   *)
(* last_in_scale_fov[s] its field of view; the accumulator block of a      *)
(* `macc x<s>` has that layer as bottom, also when the factor is not s.    *)
IsConvLine(ln) == ln.tag = "conv"

\* The conv block that line i of lines, a conv line, wrote to d.
ConvBlockOfLine(d, i) ==
    SelectSeq(d, IsConv)[Len(SelectSeq(SubSeq(lines, 1, i), IsConvLine))]

\* The accumulator block that line i of lines, a macc line, wrote to d.
AccBlockOfLine(d, i) ==
    SelectSeq(d, IsAcc)[Len(SelectSeq(SubSeq(lines, 1, i), IsMaccLine))]

\* The last conv line before line j processed while the factor was s.
LastConvLineAt(j, s) ==
    CHOOSE i \in 1..(j - 1) :
        /\ lines[i].tag = "conv" /\ FactorAt(lines, i) = s
        /\ \A h \in (i + 1)..(j - 1) :
              ~(lines[h].tag = "conv" /\ FactorAt(lines, h) = s)

C8_LastInScale ==
    (pc \in {"train_val", "deploy"})
    => /\ DOMAIN last_in_scale
            = {FactorAt(lines, i) : i \in {h \in 1..(idx - 1) : lines[h].tag = "conv"}}
       /\ DOMAIN last_in_scale_fov = DOMAIN last_in_scale
       /\ \A s \in DOMAIN last_in_scale :
             LET b == ConvBlockOfLine(doc, LastConvLineAt(idx, s))
             IN  last_in_scale[s] = b.name /\ last_in_scale_fov[s] = b.fov
       /\ \A j \in 1..(idx - 1) :
             lines[j].tag = "macc"
             => AccBlockOfLine(doc, j).bottom
                  = ConvBlockOfLine(doc, LastConvLineAt(j, ScaleOf(lines[j]))).name

\* The deploy document holds an accumulator block of a scale that is not
\* the current factor, and its bottom is the second conv of that scale.
C8_Witness ==
    /\ pc = "deploy"
    /\ \E b \in Range(deploy_file) :
          IsAcc(b) /\ b.scale # downsampling /\ b.bottom = conv_name(b.scale, 2)

----------------------------------------------------------------------------
(* C9: the pad a conv block states is floor((k-1)/2) without dilation and  *)
(* floor((k-1)/2) * (d+1) with dilation d, for odd and even k.             *)
PadAsClaimed(b) ==
    IF b.dilation = None
    THEN b.pad = (b.kernel_size - 1) \div 2
    ELSE b.pad = ((b.kernel_size - 1) \div 2) * b.dilation

C9_Pad ==
    \A b \in Range(train_val_file) \cup Range(deploy_file) :
        IsConv(b) => PadAsClaimed(b)

\* Under Python 2 the pad is the claimed one.
C9_PadUnderPython2 == ~py3 => C9_Pad

----------------------------------------------------------------------------
(* C10: within a pass over lines of which no two macc lines name the same  *)
(* scale, the names of the conv, pool and accumulator layers written are   *)
(* pairwise distinct.                                                      *)
DistinctNames(d) ==
    LET named == SelectSeq(d, IsShared)
        layers == SelectSeq(named, LAMBDA b : ~IsRelu(b))
    IN  \A i, j \in DOMAIN layers : i # j => layers[i].name # layers[j].name

DistinctScales ==
    LET ms == MaccScales(lines)
    IN  \A i, j \in DOMAIN ms : i # j => ms[i] # ms[j]

C10_DistinctNames ==
    DistinctScales => DistinctNames(train_val_file) /\ DistinctNames(deploy_file)

\* Both documents hold the conv layers of two scales, a pool and the
\* accumulators of both scales.
C10_Witness ==
    /\ pc = "done"
    /\ DistinctScales
    /\ Count(deploy_file, IsAcc) = 2
    /\ Count(deploy_file, IsPool) >= 1
    /\ Count(deploy_file, IsConv) >= 2

====
